---- MODULE Spec2Model ----
(***************************************************************************)
(* A model of virgo.plot (src/virgo/virgo.py, lines 570-968): the data     *)
(* reduction pipeline that loads a raw spectrometer recording and an       *)
(* optional calibration recording, blanks RFI channels, averages,          *)
(* de-disperses, calibrates, smooths and exports.                          *)
(*                                                                         *)
(* Numbers.  The code computes in floating point.  The model computes with *)
(* exact rationals extended by the three IEEE specials the code can        *)
(* produce (nan, +inf, -inf); a value is a record [k, n, d] with k the     *)
(* kind and n/d the reduced fraction of a finite value.  Frequencies are   *)
(* carried in MHz (the code's Hz value times 1e-6), so that the products   *)
(* of the code stay inside TLC's 32-bit integers; wherever the code needs  *)
(* the Hz value the model multiplies by HzPerMHz.                          *)
(***************************************************************************)
EXTENDS Integers, Sequences, FiniteSets, TLC

----------------------------------------------------------------------------
(* Exact arithmetic standing for the code's floating point.                *)

Abs(x) == IF x < 0 THEN -x ELSE x

RECURSIVE GCD(_, _)
GCD(a, b) == IF b = 0 THEN a ELSE GCD(b, a % b)

Fin(n, d) ==
    LET s == IF d < 0 THEN -1 ELSE 1
        g == GCD(Abs(n), Abs(d))
    IN  [k |-> "fin", n |-> (s * n) \div g, d |-> (s * d) \div g]

Num(i) == [k |-> "fin", n |-> i, d |-> 1]
NaN    == [k |-> "nan", n |-> 0, d |-> 1]
Inf    == [k |-> "inf", n |-> 0, d |-> 1]
NegInf == [k |-> "ninf", n |-> 0, d |-> 1]

IsNaN(x)    == x.k = "nan"
IsFinite(x) == x.k = "fin"
Sign(x)     == IF x.k = "inf" THEN 1 ELSE IF x.k = "ninf" THEN -1
               ELSE IF x.n > 0 THEN 1 ELSE IF x.n < 0 THEN -1 ELSE 0
Signed(s)   == IF s > 0 THEN Inf ELSE IF s < 0 THEN NegInf ELSE NaN

VNeg(x) == IF x.k = "fin" THEN [x EXCEPT !.n = -x.n]
           ELSE IF x.k = "inf" THEN NegInf
           ELSE IF x.k = "ninf" THEN Inf ELSE NaN

VAdd(x, y) ==
    IF IsNaN(x) \/ IsNaN(y) THEN NaN
    ELSE IF IsFinite(x) /\ IsFinite(y)
         THEN LET g == GCD(x.d, y.d)
              IN  Fin(x.n * (y.d \div g) + y.n * (x.d \div g), (x.d \div g) * y.d)
    ELSE IF IsFinite(x) THEN y
    ELSE IF IsFinite(y) THEN x
    ELSE IF x.k = y.k THEN x ELSE NaN

VSub(x, y) == VAdd(x, VNeg(y))

VMul(x, y) ==
    IF IsNaN(x) \/ IsNaN(y) THEN NaN
    ELSE IF IsFinite(x) /\ IsFinite(y)
         THEN LET g1 == GCD(Abs(x.n), y.d)
                  g2 == GCD(Abs(y.n), x.d)
              IN  Fin((x.n \div g1) * (y.n \div g2), (x.d \div g2) * (y.d \div g1))
    ELSE Signed(Sign(x) * Sign(y))

VInv(x) ==
    IF IsNaN(x) THEN NaN
    ELSE IF ~IsFinite(x) THEN Num(0)
    ELSE IF x.n = 0 THEN Inf
    ELSE Fin(x.d, x.n)

(* x / y as numpy divides: x / 0 is nan for x = 0 and an infinity otherwise *)
VDiv(x, y) ==
    IF IsNaN(x) \/ IsNaN(y) THEN NaN
    ELSE IF IsFinite(y) /\ y.n = 0 THEN Signed(Sign(x))
    ELSE IF ~IsFinite(x) /\ ~IsFinite(y) THEN NaN
    ELSE VMul(x, VInv(y))

(* x < y as IEEE compares: false whenever either side is nan *)
VLess(x, y) ==
    /\ ~IsNaN(x) /\ ~IsNaN(y)
    /\ IF x.k = y.k /\ ~IsFinite(x) THEN FALSE ELSE Sign(VSub(x, y)) < 0

(* int(x) of a finite x: truncation toward zero *)
Trunc(x) == IF x.n >= 0 THEN x.n \div x.d ELSE -((-x.n) \div x.d)


(* decibel(x), src line 613: 10*log10(x) when dB is set.  A positive finite *)
(* x becomes the kind "db", which stands for the real number 10*log10(n/d)  *)
Decibel(dB, x) ==
    IF ~dB THEN x
    ELSE IF IsNaN(x) \/ x.k = "ninf" THEN NaN
    ELSE IF x.k = "inf" THEN Inf
    ELSE IF x.n < 0 THEN NaN
    ELSE IF x.n = 0 THEN NegInf
    ELSE [x EXCEPT !.k = "db"]

(* 10**((a-b)/10) for two results of Decibel, src line 748 *)
DbRatio(a, b) ==
    IF IsNaN(a) \/ IsNaN(b) THEN NaN
    ELSE IF a.k = "db" /\ b.k = "db" THEN Fin(a.n * b.d, a.d * b.n)
    ELSE IF a.k = b.k THEN NaN
    ELSE IF a.k = "inf" \/ b.k = "ninf" THEN Inf
    ELSE Num(0)

----------------------------------------------------------------------------
(* numpy reductions over a sequence of values                              *)

(* the sum of s[lo..hi], split in halves to keep the evaluation shallow *)
RECURSIVE SumRange(_, _, _)
SumRange(s, lo, hi) ==
    IF lo > hi THEN Num(0)
    ELSE IF lo = hi THEN s[lo]
    ELSE LET mid == (lo + hi) \div 2
         IN  VAdd(SumRange(s, lo, mid), SumRange(s, mid + 1, hi))

NotNaN(x) == ~IsNaN(x)

(* np.mean *)
Mean(s) == VDiv(SumRange(s, 1, Len(s)), Num(Len(s)))

(* np.nanmean: the mean of the values that are not nan, nan when none is *)
NanMeanPlain(s) == Mean(s)
NanMeanZero(s) ==
    LET v == SelectSeq(s, NotNaN)
    IN  IF Len(v) = 0 THEN Num(0) ELSE Mean(v)
NanMean(s) ==
    LET v == SelectSeq(s, NotNaN)
    IN  IF Len(v) = 0 THEN NaN ELSE Mean(v)

(* np.nanstd squared (ddof = 0): nan entries are dropped first *)
NanVar(s) ==
    LET v == SelectSeq(s, NotNaN)
        m == Mean(v)
        sq == [i \in 1..Len(v) |-> VMul(VSub(v[i], m), VSub(v[i], m))]
    IN  IF Len(v) = 0 THEN NaN ELSE Mean(sq)

(* np.max and np.min of s[lo..hi] *)
RECURSIVE MaxRange(_, _, _)
MaxRange(s, lo, hi) ==
    IF lo = hi THEN s[lo]
    ELSE LET mid == (lo + hi) \div 2
             a == MaxRange(s, lo, mid)
             b == MaxRange(s, mid + 1, hi)
         IN  IF VLess(a, b) THEN b ELSE a

RECURSIVE MinRange(_, _, _)
MinRange(s, lo, hi) ==
    IF lo = hi THEN s[lo]
    ELSE LET mid == (lo + hi) \div 2
             a == MinRange(s, lo, mid)
             b == MinRange(s, mid + 1, hi)
         IN  IF VLess(b, a) THEN b ELSE a

(* np.roll(a, k): element i of the result is element (i - k) mod len of a *)
RollBack(a, k) == [i \in 1..Len(a) |-> a[((i - 1 + k) % Len(a)) + 1]]
Roll(a, k) == [i \in 1..Len(a) |-> a[((i - 1 - k) % Len(a)) + 1]]

Column(w, c) == [r \in 1..Len(w) |-> w[r][c + 1]]

----------------------------------------------------------------------------
(* Program constants                                                       *)

BytesPerSample   == 4        \* dtype='float32'
DiscardRows      == 3        \* waterfall[3:, :]
DispersionFactor == 4149     \* deltaT = 4149*dm*(...)
HzPerMHz         == 1000000  \* frequency axis is scaled by 1e-6

----------------------------------------------------------------------------
(* The state of one call of plot()                                         *)

VARIABLES
    args,             \* the arguments of the call and the two input files
    n,                \* the argument n, which line 732 assigns again
    pc,               \* the stage plot() is at, or was at when it failed
    err,              \* the exception that ended the call, "" while none
    bins,             \* line 677
    waterfall,        \* line 681: sequence of integrations, each a sequence of channels
    waterfall_cal,    \* line 697
    rfi_lo, rfi_hi,   \* lines 689-690
    avg_spectrum,     \* line 711
    avg_spectrum_cal, \* line 713
    subs,             \* line 716
    t,                \* line 719
    frequency,        \* line 722: the frequency axis [MHz]
    t_bin,            \* loop variable of line 729
    power,            \* line 736
    mask,             \* line 739
    spectrum,         \* line 752: [v, s2], channel i holding v[i]/sqrt(s2)
    snr,              \* history: the locals background and noise of each SNR() call
    blanked,          \* history: channels assigned nan by line 694
    blanked_cal,      \* history: channels assigned nan by line 706
    before,           \* history: waterfall as it entered line 726
    shifts,           \* history: the calls shift(phase_num, n_rows) made so far
    spectrum_clean,   \* lines 763-765: [v, s2] as spectrum, v empty while unassigned
    power_clean,      \* lines 772-774
    fit,              \* lines 755-757 and the y handed to np.polyfit, in units of 1/sqrt(s2)
    written,          \* the output files written so far
    removed           \* the files that existed before the call and were removed

vars == <<args, pc, err, bins, waterfall, waterfall_cal, rfi_lo, rfi_hi,
          avg_spectrum, avg_spectrum_cal, subs, t, frequency, t_bin, power,
          mask, spectrum, snr, blanked, blanked_cal, before, shifts, n,
          spectrum_clean, power_clean, fit, written, removed>>

(* what the stages after line 752 assign *)
later == <<spectrum_clean, power_clean, fit, written, removed>>

(* an exception ends the call at the statement it is raised in *)
Fail(e) == pc' = pc /\ err' = e
Goto(l) == pc' = l /\ err' = err

----------------------------------------------------------------------------
(* Frame loader, lines 676-684 and 696-700                                 *)

(* sample k of an input file: the files hold small whole numbers *)
Sample(pat, k) ==
    IF pat = "ramp" THEN (k % 3) + 1
    ELSE IF pat = "mixed" THEN (k * k) % 5
    ELSE IF pat = "count" THEN k - 2
    ELSE 2

(* bins = int(t_sample*bandwidth/channels), the bandwidth in Hz *)
Bins(a) ==
    Trunc(VDiv(VMul(a.t_sample, VMul(a.bandwidth, Num(HzPerMHz))), Num(a.channels)))

(* np.fromfile(file, dtype='float32'): the whole samples of the file; a    *)
(* trailing part of a sample is dropped silently                           *)
FromFile(file) == file.bytes \div BytesPerSample

(* reshape(-1, channels) succeeds iff the sample count divides evenly *)
ReshapeOk(count, channels) == count % channels = 0

(* [3:, :] *)
DropFirst(rows) ==
    IF Len(rows) <= DiscardRows THEN << >> ELSE SubSeq(rows, DiscardRows + 1, Len(rows))

(* offset*np.fromfile(...).reshape(-1, channels)/bins, then [3:, :] *)
LoadFile(file, channels, nbins) ==
    LET count == FromFile(file)
        nrows == count \div channels
        full  == [r \in 1..nrows |->
                    [c \in 1..channels |->
                       VDiv(Num(Sample(file.pat, (r - 1) * channels + (c - 1))),
                            Num(nbins))]]
    IN  IF ~ReshapeOk(count, channels)
        THEN [err |-> "ValueError", wf |-> << >>]
        ELSE [err |-> "", wf |-> DropFirst(full)]

----------------------------------------------------------------------------
(* RFI masker, lines 686-694 and 702-706                                   *)

NoRfi(a) == a.rfi = <<Num(0), Num(0)>>

(* channels*(f - (frequency - bandwidth/2))/bandwidth *)
ChannelOfCentred(a, f) ==
    VDiv(VMul(Num(a.channels), VSub(f, a.frequency)), a.bandwidth)
ChannelOf(a, f) ==
    VDiv(VMul(Num(a.channels),
              VSub(f, VSub(a.frequency, VDiv(a.bandwidth, Num(2))))),
         a.bandwidth)

(* range(int(rfi_lo), int(rfi_hi)) of line 693 and of line 705 *)
ObsRange(lo, hi) == <<Trunc(lo), Trunc(hi)>>
CalRangeInclusive(lo, hi) == <<Trunc(lo), Trunc(hi) + 1>>
CalRange(lo, hi) == <<Trunc(lo), Trunc(hi)>>

(* the value line 694 stores *)
BlankHalve(x) == VDiv(x, Num(2))
BlankValue(x) == NaN

(* waterfall[:, i] = np.nan for a valid index i, negative ones counting    *)
(* from the end of the channel axis                                        *)
BlankColumn(w, i, channels) ==
    LET c == IF i < 0 THEN i + channels ELSE i
    IN  [r \in 1..Len(w) |-> [w[r] EXCEPT ![c + 1] = BlankValue(@)]]

(* the iterations i = start .. stop-1 of the loop of line 693, in order   *)
(* (the range is run as its first half, then its second half); an index  *)
(* outside -channels..channels-1 raises IndexError and ends the loop      *)
RECURSIVE BlankFrom(_, _, _, _)
BlankFrom(w, start, stop, channels) ==
    IF start >= stop THEN [wf |-> w, err |-> "", cols |-> {}]
    ELSE IF start + 1 = stop
         THEN IF start >= channels \/ start < -channels
              THEN [wf |-> w, err |-> "IndexError", cols |-> {}]
              ELSE [wf |-> BlankColumn(w, start, channels), err |-> "",
                    cols |-> {IF start < 0 THEN start + channels ELSE start}]
    ELSE LET mid == (start + stop) \div 2
             a == BlankFrom(w, start, mid, channels)
             b == BlankFrom(a.wf, mid, stop, channels)
         IN  IF a.err # "" THEN a
             ELSE [b EXCEPT !.cols = @ \cup a.cols]

----------------------------------------------------------------------------
(* Axes and de-dispersion, lines 715-733                                   *)

(* np.linspace(frequency-0.5*bandwidth, frequency+0.5*bandwidth, channels, *)
(* endpoint=False)*1e-6                                                     *)
FrequencyAxis(a) ==
    LET start == VSub(a.frequency, VMul(Fin(1, 2), a.bandwidth))
        stop  == VAdd(a.frequency, VMul(Fin(1, 2), a.bandwidth))
        step  == VDiv(VSub(stop, start), Num(a.channels))
    IN  [i \in 1..a.channels |-> VAdd(VMul(Num(i - 1), step), start)]

(* t_sample*np.arange(subs) *)
TimeAxis(a, count) == [i \in 1..count |-> VMul(a.t_sample, Num(i - 1))]

(* if dm != 0 *)
DedisperseAlways(dm) == TRUE
DedisperseEnabled(dm) == dm # Num(0)

(* deltaT of iteration tb, lines 727-731 *)
DeltaT(a, freq, rows, tb) ==
    LET fmax   == MaxRange(freq, 1, Len(freq))
        fmin   == MinRange(freq, 1, Len(freq))
        deltaF == VDiv(VSub(fmax, fmin), Num(rows))
        f_chan == VAdd(fmin, VMul(Num(tb), deltaF))
    IN  VMul(VMul(Num(DispersionFactor), a.dm),
             VSub(VDiv(Num(1), VMul(f_chan, f_chan)),
                  VDiv(Num(1), VMul(fmax, fmax))))

(* float(deltaT)/(float(1)/channels), the argument of int() in line 732 *)
ShiftArg(a, freq, rows, tb) == VDiv(DeltaT(a, freq, rows, tb), VDiv(Num(1), Num(a.channels)))

(* shift(phase_num, n_rows), lines 617-618:                                *)
(* waterfall[:, phase_num] = np.roll(waterfall[:, phase_num], -n_rows)      *)
ShiftRolled(w, phase_num, n_rows) == Roll(Column(w, phase_num), -n_rows)
Shift(w, phase_num, n_rows) ==
    LET col == ShiftRolled(w, phase_num, n_rows)
    IN  [r \in 1..Len(w) |-> [w[r] EXCEPT ![phase_num + 1] = col[r]]]

----------------------------------------------------------------------------
(* Calibration, lines 620-631 and 738-752                                  *)

(* mask[(frequency > f_rest*1e-6-0.2) & (frequency < f_rest*1e-6+0.8)] = 1 *)
LineMask(a, freq) ==
    [i \in 1..Len(freq) |->
        IF /\ VLess(VSub(a.f_rest, Fin(1, 5)), freq[i])
           /\ VLess(freq[i], VAdd(a.f_rest, Fin(4, 5)))
        THEN 1 ELSE 0]

(* avg_spectrum/avg_spectrum_cal, or 10**((avg_spectrum-avg_spectrum_cal)/10) *)
Ratio(dB, x, y) == IF dB THEN DbRatio(x, y) ELSE VDiv(x, y)

RECURSIVE Pick(_, _, _)
(* s[m == 0]: the elements of s at the positions from i on where m is 0 *)
Pick(s, m, i) ==
    IF i > Len(s) THEN << >>
    ELSE IF m[i] = 0 THEN <<s[i]>> \o Pick(s, m, i + 1) ELSE Pick(s, m, i + 1)

(* (spectrum[2:]-spectrum[:-2])[mask[1:-1] == 0] *)
Lag2(s, m) ==
    IF Len(s) < 3 THEN << >>
    ELSE Pick([k \in 1..(Len(s) - 2) |-> VSub(s[k + 2], s[k])],
              [k \in 1..(Len(s) - 2) |-> m[k + 1]], 1)

(* x/noise where noise*noise = n2 *)
OverNoise(x, n2) ==
    IF IsNaN(x) \/ IsNaN(n2) THEN NaN
    ELSE IF n2.n = 0 THEN VDiv(x, Num(0))
    ELSE x

(* SNR(spectrum, mask).  noise = nanstd(...)/sqrt(2) is irrational, so the  *)
(* result is held as the numerators v and the square s2 of the noise:      *)
(* channel i is v[i]/sqrt(s2).  The SNR of such a pair is the SNR of its v, *)
(* a positive common factor cancelling in (x - background)/noise.          *)
SNR(sp, m) ==
    LET noise2     == VDiv(NanVar(Lag2(sp, m)), Num(2))
        background == NanMean(Pick(sp, m, 1))
    IN  [v  |-> [i \in 1..Len(sp) |-> OverNoise(VSub(sp[i], background), noise2)],
         s2 |-> IF IsFinite(noise2) /\ noise2.n > 0 THEN noise2 ELSE Num(1),
         background |-> background,
         noise2 |-> noise2]

----------------------------------------------------------------------------
(* Median smoothing, lines 761-765 and 770-774                             *)

(* the place np.sort gives a value: decibel values stand in the order of   *)
(* their arguments                                                         *)
Rank(x) == IF x.k = "db" THEN [x EXCEPT !.k = "fin"] ELSE x

(* the mean of the two middle values of an even count.  The mean of two    *)
(* different decibel values 10*log10(x) and 10*log10(y) is 5*log10(x*y),   *)
(* the kind "db2"                                                          *)
VMidUpper(a, b) == b
VMid(a, b) ==
    IF a = b THEN a
    ELSE IF a.k = "db" /\ b.k = "db" THEN [Fin(a.n * b.n, a.d * b.d) EXCEPT !.k = "db2"]
    ELSE IF a.k = "db" THEN b
    ELSE IF b.k = "db" THEN a
    ELSE VDiv(VAdd(a, b), Num(2))

(* the k-th smallest value of the sequence v, which holds no nan *)
Kth(v, k) ==
    LET i == CHOOSE i \in 1..Len(v) :
                 /\ Cardinality({j \in 1..Len(v) : VLess(Rank(v[j]), Rank(v[i]))}) < k
                 /\ Cardinality({j \in 1..Len(v) : ~VLess(Rank(v[i]), Rank(v[j]))}) >= k
    IN  v[i]

(* np.nanmedian: the median of the values that are not nan, nan when none is *)
NanMedian(s) ==
    LET v == SelectSeq(s, NotNaN)
        h == Len(v) \div 2
    IN  IF Len(v) = 0 THEN NaN
        ELSE IF Len(v) % 2 = 1 THEN Kth(v, h + 1)
        ELSE VMid(Kth(v, h), Kth(v, h + 1))

(* the end of the slice a[i:i+n] of an array of len elements, as Python    *)
(* clips it: a negative stop counts from the end, none passes the end      *)
SliceStopInclusive(i, width, len) ==
    LET stop == i + width + 1
    IN  IF stop < 0 THEN (IF stop + len < 0 THEN 0 ELSE stop + len)
        ELSE IF stop > len THEN len ELSE stop
SliceStop(i, width, len) ==
    LET stop == i + width
    IN  IF stop < 0 THEN (IF stop + len < 0 THEN 0 ELSE stop + len)
        ELSE IF stop > len THEN len ELSE stop

(* a[i:i+width], i counted from 0 *)
Window(a, i, width) == SubSeq(a, i + 1, SliceStop(i, width, Len(a)))

(* for i in range(start, stop): a[i] = np.nanmedian(a[i:i+width]), the array   *)
(* updated in place; split in halves to keep the evaluation shallow        *)
RECURSIVE MedianLoop(_, _, _, _)
MedianLoop(a, start, stop, width) ==
    IF start >= stop THEN a
    ELSE IF stop = start + 1
         THEN [a EXCEPT ![start + 1] = NanMedian(Window(a, start, width))]
    ELSE LET mid == (start + stop) \div 2
         IN  MedianLoop(MedianLoop(a, start, mid, width), mid, stop, width)

----------------------------------------------------------------------------
(* Slope correction, lines 753-759                                         *)

(* idx = np.isfinite(frequency) & np.isfinite(spectrum) *)
FiniteIdx(freq, sp) == {i \in 1..Len(sp) : IsFinite(freq[i]) /\ IsFinite(sp[i])}

(* the sum of f[i]*g[i] over the channels i of idx *)
DotOver(f, g, idx) ==
    SumRange([i \in 1..Len(f) |-> IF i \in idx THEN VMul(f[i], g[i]) ELSE Num(0)],
             1, Len(f))

(* np.polyfit(x[idx], y[idx], 1): the least-squares line.  No point raises  *)
(* TypeError; one point is rank deficient and gives the minimum-norm       *)
(* solution of the scaled system, the line y/(2x)*X + y/2 through it       *)
PolyFit(x, y, idx) ==
    LET N   == Cardinality(idx)
        one == [i \in 1..Len(x) |-> Num(1)]
        Sx  == DotOver(x, one, idx)
        Sy  == DotOver(y, one, idx)
        Sxx == DotOver(x, x, idx)
        Sxy == DotOver(x, y, idx)
        p   == CHOOSE i \in idx : TRUE
        a   == IF N = 1 THEN VDiv(y[p], VMul(Num(2), x[p]))
               ELSE VDiv(VSub(VMul(Num(N), Sxy), VMul(Sx, Sy)),
                         VSub(VMul(Num(N), Sxx), VMul(Sx, Sx)))
        b   == IF N = 1 THEN VDiv(y[p], Num(2))
               ELSE VDiv(VSub(Sy, VMul(a, Sx)), Num(N))
    IN  IF N = 0 THEN [err |-> "TypeError", ang_coeff |-> NaN, intercept |-> NaN]
        ELSE [err |-> "", ang_coeff |-> a, intercept |-> b]

(* spectrum - (ang_coeff*frequency + intercept) *)
Detrend(freq, sp, line) ==
    [i \in 1..Len(sp) |->
        VSub(sp[i], VAdd(VMul(line.ang_coeff, freq[i]), line.intercept))]

----------------------------------------------------------------------------
(* The calls of plot() the model explores                                  *)

MaxRows == 6     \* integrations in an input file, before the first 3 are dropped

File(nbytes, pat) == [bytes |-> nbytes, pat |-> pat]

Whole(rows, channels) == rows * channels * BytesPerSample

Call(ch, ts, bw, fc, fr, rfi, dm, dB, obs, cal, calf) ==
    [channels |-> ch, t_sample |-> ts, bandwidth |-> bw, frequency |-> fc,
     f_rest |-> fr, rfi |-> rfi, dm |-> dm, dB |-> dB, obs |-> obs,
     cal |-> cal, calf |-> calf,
     n |-> 0, m |-> 0, slope_correction |-> FALSE, waterfall_fits |-> FALSE,
     fits_exists |-> FALSE, spectra_csv |-> FALSE, power_csv |-> FALSE,
     cal_channels |-> ch]

NoFile == File(0, "flat")

(* RFI intervals [MHz] against the band 1..3 MHz: none, inside the band,   *)
(* the whole band, reaching below it, reaching above it, inside one channel *)
RfiChoices ==
    { <<Num(0), Num(0)>>, <<Fin(3, 2), Fin(5, 2)>>, <<Num(1), Num(3)>>,
      <<Fin(1, 2), Num(2)>>, <<Num(2), Fin(7, 2)>>, <<Fin(6, 5), Fin(13, 10)>> }

DmChoices == { Num(0), Num(1), Fin(1, 10000) }

(* a 2 MHz band centred on 2 MHz, every combination of shape, interval,    *)
(* dispersion measure and calibration                                      *)
MainCalls ==
    { Call(ch, Fin(1, 500000), Num(2), Num(2), Num(0), rfi, dm, FALSE,
           File(Whole(rows, ch), "ramp"), cal,
           IF cal THEN File(Whole(rows, ch), "mixed") ELSE NoFile) :
        ch \in {2, 4}, rows \in 0..MaxRows, rfi \in RfiChoices,
        dm \in DmChoices, cal \in BOOLEAN }

(* input files whose length is not rows*channels*4: two bytes or one       *)
(* sample too many, in either file                                         *)
OddFileCalls ==
    { Call(ch, Fin(1, 500000), Num(2), Num(2), Num(0), <<Fin(3, 2), Fin(5, 2)>>,
           Num(0), FALSE, File(Whole(rows, ch) + x, "ramp"), cal,
           IF cal THEN File(Whole(rows, ch) + y, "mixed") ELSE NoFile) :
        ch \in {1, 2, 4}, rows \in {0, 3, 5}, x \in {0, 2, 4, 6}, y \in {0, 2, 4},
        cal \in BOOLEAN }

(* 8 channels: integration times giving 0, 1 and 2 accumulation bins,     *)
(* decibel scaling, a spectral line inside the band, samples that are 0,   *)
(* RFI in one channel and in all                                           *)
ScalingCalls ==
    { Call(8, ts, Num(2), Num(2), fr, rfi, Num(0), dB,
           File(Whole(rows, 8), pat), cal,
           IF cal THEN File(Whole(5, 8), "flat") ELSE NoFile) :
        ts \in {Fin(1, 2000000), Fin(1, 250000), Fin(1, 125000)},
        fr \in {Num(0), Num(2)},
        rfi \in {<<Num(0), Num(0)>>, <<Fin(3, 2), Fin(9, 5)>>, <<Num(1), Num(3)>>},
        dB \in BOOLEAN, rows \in {4, MaxRows}, pat \in {"ramp", "mixed"},
        cal \in BOOLEAN }

(* 103 integrations of 4 channels, t_sample = 1 s, bandwidth = 4 Hz        *)
Example103 ==
    Call(4, Num(1), Fin(4, HzPerMHz), Num(100), Num(0), <<Num(0), Num(0)>>,
         Num(0), FALSE, File(Whole(103, 4), "ramp"), FALSE, NoFile)

(* centre 1000 MHz, bandwidth 100 MHz, 1024 channels, RFI 990..1010 MHz *)
Example1024 ==
    Call(1024, Num(1), Num(100), Num(1000), Num(0), <<Num(990), Num(1010)>>,
         Num(0), FALSE, File(Whole(4, 1024), "flat"), FALSE, NoFile)

(* 8 channels and 5 integrations left: the median windows n and m, slope  *)
(* correction, a spectral line over the upper half of the band, RFI in one *)
(* channel                                                                 *)
SmoothCalls ==
    { [Call(8, Fin(1, 250000), Num(2), Num(2), fr, rfi, Num(0), dB,
            File(Whole(MaxRows + 2, 8), pat), cal,
            IF cal THEN File(Whole(5, 8), "flat") ELSE NoFile)
         EXCEPT !.n = nn, !.m = mm, !.slope_correction = sl] :
        fr \in {Num(0), Num(2)},
        rfi \in {<<Num(0), Num(0)>>, <<Fin(3, 2), Fin(9, 5)>>},
        dB \in BOOLEAN, pat \in {"ramp", "mixed"}, cal \in BOOLEAN,
        nn \in {0, 2, 3}, mm \in {0, 2, 3}, sl \in BOOLEAN }

(* one channel whose power series is 1, 2, 3, 4, 5, smoothed with m = 3 *)
MedianExample ==
    [Call(1, Fin(1, 2000000), Num(2), Num(2), Num(0), <<Num(0), Num(0)>>,
          Num(0), FALSE, File(Whole(8, 1), "count"), FALSE, NoFile)
       EXCEPT !.m = 3]

(* a calibration recording acquired with another channel count than the   *)
(* raw recording: the file holds rows*cal_channels samples                 *)
MismatchCalls ==
    { [Call(ch, Fin(1, 500000), Num(2), Num(2), Num(0), <<Num(0), Num(0)>>,
            Num(0), FALSE, File(Whole(MaxRows, ch), "ramp"), TRUE,
            File(Whole(rows, cc), "mixed"))
         EXCEPT !.cal_channels = cc, !.n = nn] :
        ch \in {4, 8}, cc \in {2, 3, 4, 8, 16}, rows \in {5, 2 * MaxRows - 2},
        nn \in {0, 2} }

(* the calibration recording is the raw recording *)
IdenticalCalls ==
    { [Call(ch, Fin(1, 500000), Num(2), Num(2), fr, rfi, Num(0), dB,
            File(Whole(rows, ch), pat), TRUE, File(Whole(rows, ch), pat))
         EXCEPT !.n = nn, !.slope_correction = sl] :
        ch \in {4, 8}, fr \in {Num(0), Num(2)},
        rfi \in {<<Num(0), Num(0)>>, <<Fin(3, 2), Fin(9, 5)>>},
        dB \in BOOLEAN, rows \in {4, MaxRows}, pat \in {"ramp", "mixed"},
        nn \in {0, 2}, sl \in BOOLEAN }

(* the calls of MainCalls with every output file asked for *)
ExportCalls ==
    { [c EXCEPT !.waterfall_fits = TRUE, !.fits_exists = e, !.spectra_csv = TRUE,
                !.power_csv = TRUE, !.slope_correction = TRUE] :
        c \in MainCalls, e \in BOOLEAN }

Calls ==
    MainCalls \cup OddFileCalls \cup ScalingCalls \cup {Example103, Example1024}
        \cup SmoothCalls \cup {MedianExample} \cup MismatchCalls
        \cup IdenticalCalls \cup ExportCalls

----------------------------------------------------------------------------
(* plot(), one action per stage                                            *)

Init ==
    /\ args \in Calls
    /\ n = args.n
    /\ pc = "load_obs"
    /\ err = ""
    /\ bins = 0
    /\ waterfall = << >>
    /\ waterfall_cal = << >>
    /\ rfi_lo = Num(0)
    /\ rfi_hi = Num(0)
    /\ avg_spectrum = << >>
    /\ avg_spectrum_cal = << >>
    /\ subs = 0
    /\ t = << >>
    /\ frequency = << >>
    /\ t_bin = 0
    /\ power = << >>
    /\ mask = << >>
    /\ spectrum = [v |-> << >>, s2 |-> Num(1)]
    /\ snr = << >>
    /\ blanked = {}
    /\ blanked_cal = {}
    /\ before = << >>
    /\ shifts = << >>
    /\ spectrum_clean = [v |-> << >>, s2 |-> Num(1)]
    /\ power_clean = << >>
    /\ fit = [ang_coeff |-> NaN, intercept |-> NaN, s2 |-> Num(1), y |-> << >>]
    /\ written = {}
    /\ removed = {}

(* lines 676-684 *)
LoadObs ==
    /\ pc = "load_obs" /\ err = ""
    /\ bins' = Bins(args)
    /\ LET r == LoadFile(args.obs, args.channels, Bins(args))
       IN  /\ waterfall' = r.wf
           /\ IF r.err # "" THEN Fail(r.err) ELSE Goto("mask_obs")
    /\ UNCHANGED later
    /\ UNCHANGED <<args, n, waterfall_cal, rfi_lo, rfi_hi, avg_spectrum,
                   avg_spectrum_cal, subs, t, frequency, t_bin, power, mask,
                   spectrum, snr, blanked, blanked_cal, before, shifts>>

(* lines 686-694 *)
MaskObs ==
    /\ pc = "mask_obs" /\ err = ""
    /\ IF NoRfi(args)
       THEN Goto("load_cal") /\ UNCHANGED <<waterfall, rfi_lo, rfi_hi, blanked>>
       ELSE LET lo == ChannelOf(args, args.rfi[1])
                hi == ChannelOf(args, args.rfi[2])
                rg == ObsRange(lo, hi)
                r  == BlankFrom(waterfall, rg[1], rg[2], args.channels)
            IN  /\ rfi_lo' = lo
                /\ rfi_hi' = hi
                /\ waterfall' = r.wf
                /\ blanked' = r.cols
                /\ IF r.err # "" THEN Fail(r.err) ELSE Goto("load_cal")
    /\ UNCHANGED later
    /\ UNCHANGED <<args, n, bins, waterfall_cal, avg_spectrum, avg_spectrum_cal,
                   subs, t, frequency, t_bin, power, mask, spectrum, snr,
                   blanked_cal, before, shifts>>

(* lines 696-700 *)
LoadCal ==
    /\ pc = "load_cal" /\ err = ""
    /\ IF ~args.cal
       THEN Goto("average") /\ UNCHANGED waterfall_cal
       ELSE LET r == LoadFile(args.calf, args.channels, bins)
            IN  /\ waterfall_cal' = r.wf
                /\ IF r.err # "" THEN Fail(r.err) ELSE Goto("mask_cal")
    /\ UNCHANGED later
    /\ UNCHANGED <<args, n, bins, waterfall, rfi_lo, rfi_hi, avg_spectrum,
                   avg_spectrum_cal, subs, t, frequency, t_bin, power, mask,
                   spectrum, snr, blanked, blanked_cal, before, shifts>>

(* lines 702-706 *)
MaskCal ==
    /\ pc = "mask_cal" /\ err = ""
    /\ IF NoRfi(args)
       THEN Goto("average") /\ UNCHANGED <<waterfall_cal, blanked_cal>>
       ELSE LET rg == CalRange(rfi_lo, rfi_hi)
                r  == BlankFrom(waterfall_cal, rg[1], rg[2], args.channels)
            IN  /\ waterfall_cal' = r.wf
                /\ blanked_cal' = r.cols
                /\ IF r.err # "" THEN Fail(r.err) ELSE Goto("average")
    /\ UNCHANGED later
    /\ UNCHANGED <<args, n, bins, waterfall, rfi_lo, rfi_hi, avg_spectrum,
                   avg_spectrum_cal, subs, t, frequency, t_bin, power, mask,
                   spectrum, snr, blanked, before, shifts>>

(* decibel(np.nanmean(w, axis=0)) *)
AverageSpectrumNextChannel(a, w) ==
    [c \in 1..a.channels |-> Decibel(a.dB, NanMean(Column(w, c % a.channels)))]
AverageSpectrum(a, w) ==
    [c \in 1..a.channels |-> Decibel(a.dB, NanMean(Column(w, c - 1)))]

(* lines 708-713 *)
Average ==
    /\ pc = "average" /\ err = ""
    /\ avg_spectrum' = AverageSpectrum(args, waterfall)
    /\ avg_spectrum_cal' = IF args.cal THEN AverageSpectrum(args, waterfall_cal)
                           ELSE avg_spectrum_cal
    /\ Goto("axes")
    /\ UNCHANGED later
    /\ UNCHANGED <<args, n, bins, waterfall, waterfall_cal, rfi_lo, rfi_hi, subs, t,
                   frequency, t_bin, power, mask, spectrum, snr, blanked,
                   blanked_cal, before, shifts>>

(* lines 715-723 *)
Axes ==
    /\ pc = "axes" /\ err = ""
    /\ subs' = Len(waterfall)
    /\ t' = TimeAxis(args, Len(waterfall))
    /\ frequency' = FrequencyAxis(args)
    /\ Goto("dedisperse")
    /\ UNCHANGED later
    /\ UNCHANGED <<args, n, bins, waterfall, waterfall_cal, rfi_lo, rfi_hi,
                   avg_spectrum, avg_spectrum_cal, t_bin, power, mask, spectrum,
                   snr, blanked, blanked_cal, before, shifts>>

(* lines 725-728: the test of dm and the statements before the loop *)
Dedisperse ==
    /\ pc = "dedisperse" /\ err = ""
    /\ before' = waterfall
    /\ IF ~DedisperseEnabled(args.dm) THEN Goto("power")
       ELSE IF subs = 0 THEN Fail("ZeroDivisionError")
       ELSE Goto("shift")
    /\ t_bin' = 0
    /\ UNCHANGED later
    /\ UNCHANGED <<args, n, bins, waterfall, waterfall_cal, rfi_lo, rfi_hi,
                   avg_spectrum, avg_spectrum_cal, subs, t, frequency, power,
                   mask, spectrum, snr, blanked, blanked_cal, shifts>>

(* lines 729-733: one iteration of the loop, or its end *)
ShiftStep ==
    /\ pc = "shift" /\ err = ""
    /\ IF t_bin >= subs
       THEN Goto("power") /\ UNCHANGED <<waterfall, shifts, t_bin, n>>
       ELSE LET x == ShiftArg(args, frequency, subs, t_bin)
            IN  IF ~IsFinite(x)
                THEN /\ Fail(IF IsNaN(x) THEN "ValueError" ELSE "OverflowError")
                     /\ UNCHANGED <<waterfall, shifts, t_bin, n>>
                ELSE /\ n' = Trunc(x)
                     /\ shifts' = Append(shifts, <<t_bin, Trunc(x)>>)
                     /\ IF t_bin >= args.channels
                        THEN Fail("IndexError") /\ UNCHANGED <<waterfall, t_bin>>
                        ELSE /\ waterfall' = Shift(waterfall, t_bin, Trunc(x))
                             /\ t_bin' = t_bin + 1
                             /\ Goto("shift")
    /\ UNCHANGED later
    /\ UNCHANGED <<args, bins, waterfall_cal, rfi_lo, rfi_hi, avg_spectrum,
                   avg_spectrum_cal, subs, t, frequency, power, mask, spectrum,
                   snr, blanked, blanked_cal, before>>

(* lines 735-736 *)
PowerSeries ==
    /\ pc = "power" /\ err = ""
    /\ power' = [r \in 1..Len(waterfall) |-> Decibel(args.dB, NanMean(waterfall[r]))]
    /\ Goto("line_mask")
    /\ UNCHANGED later
    /\ UNCHANGED <<args, n, bins, waterfall, waterfall_cal, rfi_lo, rfi_hi,
                   avg_spectrum, avg_spectrum_cal, subs, t, frequency, t_bin,
                   mask, spectrum, snr, blanked, blanked_cal, before, shifts>>

(* lines 738-740 *)
ApplyMask ==
    /\ pc = "line_mask" /\ err = ""
    /\ mask' = LineMask(args, frequency)
    /\ Goto("calibrate")
    /\ UNCHANGED later
    /\ UNCHANGED <<args, n, bins, waterfall, waterfall_cal, rfi_lo, rfi_hi,
                   avg_spectrum, avg_spectrum_cal, subs, t, frequency, t_bin,
                   power, spectrum, snr, blanked, blanked_cal, before, shifts>>

(* lines 745-752 *)
Calibrate ==
    /\ pc = "calibrate" /\ err = ""
    /\ IF ~args.cal
       THEN UNCHANGED <<spectrum, snr>>
       ELSE LET ratio == [i \in 1..args.channels |->
                             Ratio(args.dB, avg_spectrum[i], avg_spectrum_cal[i])]
                r == SNR(ratio, mask)
            IN  /\ spectrum' = [v |-> r.v, s2 |-> r.s2]
                /\ snr' = Append(snr, [background |-> r.background, noise2 |-> r.noise2])
    /\ Goto("slope")
    /\ UNCHANGED later
    /\ UNCHANGED <<args, n, bins, waterfall, waterfall_cal, rfi_lo, rfi_hi,
                   avg_spectrum, avg_spectrum_cal, subs, t, frequency, t_bin,
                   power, mask, blanked, blanked_cal, before, shifts>>

(* the tests of lines 746 and 753 that guard the slope correction *)
SlopeRequested(a) == a.slope_correction
SlopeEnabled(a) == a.cal /\ a.slope_correction

(* lines 753-759, inside the test of cal_file of line 746 *)
SlopeCorrect ==
    /\ pc = "slope" /\ err = ""
    /\ IF ~SlopeEnabled(args)
       THEN Goto("smooth_spectrum") /\ UNCHANGED <<spectrum, snr, fit>>
       ELSE LET idx == FiniteIdx(frequency, spectrum.v)
                f   == PolyFit(frequency, spectrum.v, idx)
                r   == SNR(Detrend(frequency, spectrum.v, f), mask)
            IN  IF f.err # ""
                THEN Fail(f.err) /\ UNCHANGED <<spectrum, snr, fit>>
                ELSE /\ fit' = [ang_coeff |-> f.ang_coeff, intercept |-> f.intercept,
                                s2 |-> spectrum.s2, y |-> spectrum.v]
                     /\ spectrum' = [v |-> r.v, s2 |-> r.s2]
                     /\ snr' = Append(snr, [background |-> r.background,
                                            noise2 |-> r.noise2])
                     /\ Goto("smooth_spectrum")
    /\ UNCHANGED <<args, n, bins, waterfall, waterfall_cal, rfi_lo, rfi_hi,
                   avg_spectrum, avg_spectrum_cal, subs, t, frequency, t_bin,
                   power, mask, blanked, blanked_cal, before, shifts,
                   spectrum_clean, power_clean, written, removed>>

(* lines 761-765, inside the test of cal_file of line 746 *)
SmoothSpectrum ==
    /\ pc = "smooth_spectrum" /\ err = ""
    /\ IF ~(args.cal /\ n # 0)
       THEN UNCHANGED <<spectrum_clean, snr>>
       ELSE LET r == SNR(spectrum.v, mask)
            IN  /\ spectrum_clean' =
                       [v |-> MedianLoop(r.v, 0, args.channels, n), s2 |-> r.s2]
                /\ snr' = Append(snr, [background |-> r.background,
                                       noise2 |-> r.noise2])
    /\ Goto("smooth_power")
    /\ UNCHANGED <<args, n, bins, waterfall, waterfall_cal, rfi_lo, rfi_hi,
                   avg_spectrum, avg_spectrum_cal, subs, t, frequency, t_bin,
                   power, mask, spectrum, blanked, blanked_cal, before, shifts,
                   power_clean, fit, written, removed>>

(* lines 770-774 *)
SmoothPower ==
    /\ pc = "smooth_power" /\ err = ""
    /\ power_clean' = IF args.m # 0 THEN MedianLoop(power, 0, subs, args.m)
                      ELSE power_clean
    /\ Goto("export_fits")
    /\ UNCHANGED <<args, n, bins, waterfall, waterfall_cal, rfi_lo, rfi_hi,
                   avg_spectrum, avg_spectrum_cal, subs, t, frequency, t_bin,
                   power, mask, spectrum, snr, blanked, blanked_cal, before,
                   shifts, spectrum_clean, fit, written, removed>>

(* control reaches the statements of stage l only when no statement before *)
(* them raised: plot() has no try/finally around the reduction             *)
ReachedFinally(l) == (pc = l /\ err = "") \/ (err # "" /\ l = "export_power")
Reached(l) == pc = l /\ err = ""

(* lines 776-808.  The header takes t[int(subs/2)], line 790, which does    *)
(* not exist when no integration is left; a file of the same name is       *)
(* removed, line 803, before the cube is written, line 808                 *)
ExportFits ==
    /\ Reached("export_fits")
    /\ IF ~args.waterfall_fits
       THEN Goto("export_spectra") /\ UNCHANGED <<written, removed>>
       ELSE IF subs = 0
            THEN Fail("IndexError") /\ UNCHANGED <<written, removed>>
            ELSE /\ removed' = IF args.fits_exists THEN removed \cup {"fits"}
                               ELSE removed
                 /\ written' = written \cup {"fits"}
                 /\ Goto("export_spectra")
    /\ UNCHANGED <<args, n, bins, waterfall, waterfall_cal, rfi_lo, rfi_hi,
                   avg_spectrum, avg_spectrum_cal, subs, t, frequency, t_bin,
                   power, mask, spectrum, snr, blanked, blanked_cal, before,
                   shifts, spectrum_clean, power_clean, fit>>

(* lines 810-818 *)
ExportSpectra ==
    /\ Reached("export_spectra")
    /\ written' = IF args.spectra_csv THEN written \cup {"spectra"} ELSE written
    /\ Goto("export_power")
    /\ UNCHANGED <<args, n, bins, waterfall, waterfall_cal, rfi_lo, rfi_hi,
                   avg_spectrum, avg_spectrum_cal, subs, t, frequency, t_bin,
                   power, mask, spectrum, snr, blanked, blanked_cal, before,
                   shifts, spectrum_clean, power_clean, fit, removed>>

(* lines 820-823 *)
ExportPower ==
    /\ Reached("export_power")
    /\ written' = IF args.power_csv THEN written \cup {"power"} ELSE written
    /\ Goto("plot")
    /\ UNCHANGED <<args, n, bins, waterfall, waterfall_cal, rfi_lo, rfi_hi,
                   avg_spectrum, avg_spectrum_cal, subs, t, frequency, t_bin,
                   power, mask, spectrum, snr, blanked, blanked_cal, before,
                   shifts, spectrum_clean, power_clean, fit, removed>>

(* lines 825-968.  np.min(t), line 904, raises on an empty time axis.      *)
(* Otherwise the figure is written by plt.savefig, line 968, unless the    *)
(* plotting library rejects the series it is given                         *)
Plot ==
    /\ Reached("plot")
    /\ IF subs = 0
       THEN Fail("ValueError") /\ UNCHANGED written
       ELSE \E drawn \in BOOLEAN :
                IF drawn THEN written' = written \cup {"plot"} /\ Goto("done")
                ELSE Fail("ValueError") /\ UNCHANGED written
    /\ UNCHANGED <<args, n, bins, waterfall, waterfall_cal, rfi_lo, rfi_hi,
                   avg_spectrum, avg_spectrum_cal, subs, t, frequency, t_bin,
                   power, mask, spectrum, snr, blanked, blanked_cal, before,
                   shifts, spectrum_clean, power_clean, fit, removed>>

Next ==
    \/ LoadObs
    \/ MaskObs
    \/ LoadCal
    \/ MaskCal
    \/ Average
    \/ Axes
    \/ Dedisperse
    \/ ShiftStep
    \/ PowerSeries
    \/ ApplyMask
    \/ Calibrate
    \/ SlopeCorrect
    \/ SmoothSpectrum
    \/ SmoothPower
    \/ ExportFits
    \/ ExportSpectra
    \/ ExportPower
    \/ Plot

Spec == Init /\ [][Next]_vars

----------------------------------------------------------------------------
(* Where the call is                                                       *)

Stages ==
    <<"load_obs", "mask_obs", "load_cal", "mask_cal", "average", "axes",
      "dedisperse", "shift", "power", "line_mask", "calibrate", "slope",
      "smooth_spectrum", "smooth_power", "export_fits", "export_spectra",
      "export_power", "plot", "done">>

StageNo(l) == CHOOSE i \in 1..Len(Stages) : Stages[i] = l

(* the call has completed stage l *)
Past(l) == StageNo(pc) > StageNo(l)

(* the call stopped with an exception in stage l *)
FailedIn(l) == pc = l /\ err # ""

(* the integrations an input file holds *)
RawIntegrations(file) == FromFile(file) \div args.channels

CalLoaded == args.cal /\ Past("load_cal")

----------------------------------------------------------------------------
(* C1 (as claimed): whenever a recording has been loaded, raw or           *)
(* calibration, its integration count is the file's integration count      *)
(* minus 3, and it is at least 1.                                          *)
C1_LoadedCount ==
    /\ Past("load_obs") =>
          /\ Len(waterfall) = RawIntegrations(args.obs) - DiscardRows
          /\ Len(waterfall) >= 1
    /\ CalLoaded =>
          /\ Len(waterfall_cal) = RawIntegrations(args.calf) - DiscardRows
          /\ Len(waterfall_cal) >= 1

(* C2 (as claimed): a recording whose byte length is not a multiple of     *)
(* channels x 4 is never loaded: the call fails in the stage loading it.   *)
C2_FormatError ==
    /\ args.obs.bytes % (args.channels * BytesPerSample) # 0 => ~Past("load_obs")
    /\ (args.cal /\ args.calf.bytes % (args.channels * BytesPerSample) # 0)
          => ~Past("load_cal")

(* C3 (as claimed): the bin count is floor(t_sample x bandwidth /          *)
(* channels), and no recording is loaded with a bin count below 1.         *)
C3_ConfigError ==
    LET x == VDiv(VMul(args.t_sample, VMul(args.bandwidth, Num(HzPerMHz))),
                  Num(args.channels))
    IN  Past("load_obs") => bins = x.n \div x.d /\ bins >= 1


----------------------------------------------------------------------------
(* The raw recording as the loader returned it *)
Loaded == LoadFile(args.obs, args.channels, bins).wf
LoadedCal == LoadFile(args.calf, args.channels, bins).wf

Channels == 0..(args.channels - 1)

(* every integration of w holds nan in channel c *)
BlankIn(w, c) == \A r \in 1..Len(w) : IsNaN(w[r][c + 1])

(* w and v agree in channel c *)
SameIn(w, v, c) == \A r \in 1..Len(w) : w[r][c + 1] = v[r][c + 1]

(* the channel a Python index addresses *)
Addressed(i) == IF i < 0 THEN i + args.channels ELSE i

ValidIndex(i) == i >= -args.channels /\ i < args.channels

(* C4 (as claimed): once the raw recording is masked, the blanked channels *)
(* are those from int(rfi_lo) to int(rfi_hi), both included; in the        *)
(* 1024-channel example they are 409 through 614.                          *)
C4_InclusiveRange ==
    (Past("mask_obs") /\ ~NoRfi(args)) =>
        /\ blanked = Trunc(rfi_lo)..Trunc(rfi_hi)
        /\ args = Example1024 => blanked = 409..614

(* C4 (amended): the masker blanks, in every integration, exactly the      *)
(* channels addressed by the indices int(rfi_lo) .. int(rfi_hi)-1, the     *)
(* upper bound excluded and a negative index counting back from the last   *)
(* channel, and leaves the other channels as loaded; it fails with an      *)
(* index fault iff one of these indices is outside -channels..channels-1.  *)
(* In the example the blanked channels are 409 through 613; for the band   *)
(* 1..3 MHz in 4 channels and the interval 1.5..2.5 MHz they are 1 and 2.  *)
C4_HalfOpenRange ==
    LET idx == Trunc(rfi_lo)..(Trunc(rfi_hi) - 1)
    IN  /\ (Past("mask_obs") /\ ~NoRfi(args)) =>
              /\ \A i \in idx : ValidIndex(i)
              /\ blanked = {Addressed(i) : i \in idx}
              /\ \A c \in blanked : BlankIn(waterfall, c)
              /\ ~Past("dedisperse") =>
                    \A c \in Channels \ blanked : SameIn(waterfall, Loaded, c)
              /\ args = Example1024 => blanked = 409..613
              /\ (args.channels = 4 /\ args.rfi = <<Fin(3, 2), Fin(5, 2)>>)
                    => blanked = {1, 2}
        /\ (FailedIn("mask_obs") /\ ~NoRfi(args)) =>
              /\ err = "IndexError"
              /\ \E i \in idx : ~ValidIndex(i)

(* C4 (witness): the example's raw recording is masked, channels 409       *)
(* through 613 and no others holding nan.                                  *)
C4_Witness ==
    /\ args = Example1024
    /\ pc = "load_cal"
    /\ Len(waterfall) = 1
    /\ \A c \in Channels : IsNaN(waterfall[1][c + 1]) <=> (c >= 409 /\ c <= 613)

(* C5: masking the masked recording again, with the same interval, changes *)
(* nothing: the second pass returns the recording and the outcome of the   *)
(* first, for the raw and for the calibration recording.                   *)
C5_MaskIdempotent ==
    /\ (((pc = "load_cal" /\ err = "") \/ FailedIn("mask_obs")) /\ ~NoRfi(args)) =>
          LET rg == ObsRange(rfi_lo, rfi_hi)
              again == BlankFrom(waterfall, rg[1], rg[2], args.channels)
          IN  again.wf = waterfall /\ again.err = err
    /\ ((pc = "average" \/ FailedIn("mask_cal")) /\ args.cal /\ ~NoRfi(args)) =>
          LET rg == CalRange(rfi_lo, rfi_hi)
              again == BlankFrom(waterfall_cal, rg[1], rg[2], args.channels)
          IN  again.wf = waterfall_cal /\ again.err = err

(* C5 (witness): a raw recording of finite samples has just been masked    *)
(* and the mask changed it.                                                *)
C5_Witness ==
    /\ pc = "load_cal"
    /\ err = ""
    /\ blanked # {}
    /\ waterfall # Loaded
    /\ \E c \in blanked : \E r \in 1..Len(waterfall) : IsFinite(Loaded[r][c + 1])

(* C6: with both recordings masked, the same channels were blanked in      *)
(* both, from the one pair rfi_lo, rfi_hi computed for the raw recording,  *)
(* and each of them holds nan in every integration of both recordings.     *)
C6_SameBlankedChannels ==
    (args.cal /\ Past("mask_cal") /\ ~NoRfi(args)) =>
        /\ blanked_cal = blanked
        /\ rfi_lo = ChannelOf(args, args.rfi[1])
        /\ rfi_hi = ChannelOf(args, args.rfi[2])
        /\ \A c \in blanked : BlankIn(waterfall, c) /\ BlankIn(waterfall_cal, c)
        /\ ~Past("dedisperse") =>
              \A c \in Channels \ blanked :
                  SameIn(waterfall, Loaded, c) /\ SameIn(waterfall_cal, LoadedCal, c)

(* C6 (witness): both recordings hold integrations and are masked in some  *)
(* but not all channels.                                                   *)
C6_Witness ==
    /\ args.cal
    /\ pc = "average"
    /\ Len(waterfall) >= 1
    /\ Len(waterfall_cal) >= 1
    /\ blanked # {}
    /\ blanked # Channels
    /\ blanked_cal = blanked

----------------------------------------------------------------------------
(* The statistics of SNR() over the channels RFI masking left informative  *)

(* raw/calibration ratio of line 748 or 750 *)
RatioSpectrum ==
    [i \in 1..args.channels |-> Ratio(args.dB, avg_spectrum[i], avg_spectrum_cal[i])]

MeanOrNaN(v) == IF Len(v) = 0 THEN NaN ELSE Mean(v)

VarOrNaN(v) ==
    LET m == Mean(v)
    IN  IF Len(v) = 0 THEN NaN
        ELSE Mean([i \in 1..Len(v) |-> VMul(VSub(v[i], m), VSub(v[i], m))])

(* the mean of the ratio over the channels outside the line mask that were *)
(* not blanked and hold a number                                           *)
InformativeBackground ==
    LET keep == [i \in 1..args.channels |->
                    IF mask[i] = 0 /\ (i - 1) \notin blanked THEN 0 ELSE 1]
    IN  MeanOrNaN(SelectSeq(Pick(RatioSpectrum, keep, 1), NotNaN))

(* half the variance of the lag-2 differences centred outside the line     *)
(* mask whose two ends were not blanked and that are numbers               *)
InformativeNoise2 ==
    LET sp   == RatioSpectrum
        cnt  == args.channels - 2
        diff == [k \in 1..cnt |-> VSub(sp[k + 2], sp[k])]
        keep == [k \in 1..cnt |->
                    IF /\ mask[k + 1] = 0
                       /\ (k - 1) \notin blanked
                       /\ (k + 1) \notin blanked
                    THEN 0 ELSE 1]
    IN  IF cnt < 1 THEN NaN
        ELSE VDiv(VarOrNaN(SelectSeq(Pick(diff, keep, 1), NotNaN)), Num(2))

(* C7: in a calibrated run, the background and the noise that SNR() used   *)
(* on the raw/calibration ratio are those of the channels that were not    *)
(* blanked, and the average spectrum, the ratio and the calibrated         *)
(* spectrum are nan in every blanked channel.                              *)
C7_MaskedNotInformative ==
    (args.cal /\ Past("calibrate")) =>
        /\ Len(snr) >= 1
        /\ snr[1].background = InformativeBackground
        /\ snr[1].noise2 = InformativeNoise2
        /\ \A c \in blanked :
              /\ IsNaN(avg_spectrum[c + 1])
              /\ IsNaN(RatioSpectrum[c + 1])
              /\ IsNaN(spectrum.v[c + 1])

(* C7 (witness): a calibrated run with a blanked channel, a finite         *)
(* background, a noise above zero and a nonzero SNR in some other channel. *)
C7_Witness ==
    /\ args.cal
    /\ Past("calibrate")
    /\ blanked # {}
    /\ IsFinite(snr[1].background)
    /\ IsFinite(snr[1].noise2) /\ snr[1].noise2.n > 0
    /\ \E c \in Channels \ blanked :
          IsFinite(spectrum.v[c + 1]) /\ spectrum.v[c + 1].n # 0

AllNaN(w) == \A r \in 1..Len(w) : \A c \in 1..Len(w[r]) : IsNaN(w[r][c])

(* C8: averaging never ends the call, and the average spectrum of a        *)
(* recording whose every sample is nan is nan in every channel.            *)
C8_AllMaskedAverage ==
    /\ ~FailedIn("average")
    /\ (Past("average") /\ AllNaN(waterfall)) =>
          /\ Len(avg_spectrum) = args.channels
          /\ \A c \in 1..args.channels : IsNaN(avg_spectrum[c])
    /\ (Past("average") /\ args.cal /\ AllNaN(waterfall_cal)) =>
          /\ Len(avg_spectrum_cal) = args.channels
          /\ \A c \in 1..args.channels : IsNaN(avg_spectrum_cal[c])

(* C8 (witness): a recording with integrations, every channel blanked, has *)
(* been averaged and the call goes on.                                     *)
C8_Witness ==
    /\ pc = "axes"
    /\ err = ""
    /\ Len(waterfall) >= 1
    /\ blanked = Channels
    /\ AllNaN(waterfall)
    /\ \A c \in 1..args.channels : IsNaN(avg_spectrum[c])

(* C9: with dm = 0 the loop of shift() calls is never entered, no call of  *)
(* shift() is made and the recording leaves the stage as it entered it.    *)
C9_ZeroDmNoOp ==
    args.dm = Num(0) =>
        /\ pc # "shift"
        /\ shifts = << >>
        /\ Past("dedisperse") => waterfall = before

(* C9 (witness): a recording with more integrations than channels has      *)
(* passed the de-dispersion stage with dm = 0.                             *)
C9_Witness ==
    /\ args.dm = Num(0)
    /\ pc = "power"
    /\ Len(waterfall) > args.channels
    /\ waterfall = before

(* the de-dispersion loop has run to its end *)
Dedispersed == args.dm # Num(0) /\ Past("shift")

----------------------------------------------------------------------------
(* the positions i..min(i+width, len)-1 of s, i counted from 0 *)
Forward(s, i, width) ==
    SubSeq(s, i + 1, IF i + width < Len(s) THEN i + width ELSE Len(s))

(* the array handed to the spectrum smoother, line 763 *)
SmootherInput == SNR(spectrum.v, mask).v

(* C11: a smoother with window n > 0 leaves in element i the median of the *)
(* unsmoothed values at positions i..min(i+n, length)-1, for the spectrum  *)
(* (lines 761-765, window n) and for the power series (lines 770-774,      *)
(* window m); nan values in a window are left out of its median            *)
C11_ForwardMedian ==
    /\ (Past("smooth_spectrum") /\ args.cal /\ n > 0) =>
          /\ Len(spectrum_clean.v) = args.channels
          /\ \A i \in 0..(args.channels - 1) :
                 spectrum_clean.v[i + 1] = NanMedian(Forward(SmootherInput, i, n))
    /\ (Past("smooth_power") /\ args.m > 0) =>
          /\ Len(power_clean) = subs
          /\ \A i \in 0..(subs - 1) :
                 power_clean[i + 1] = NanMedian(Forward(power, i, args.m))

(* both smoothers have run with a window of 2 or more, changed their input, *)
(* and the spectrum smoother met a nan inside a window                      *)
C11_Witness ==
    /\ Past("smooth_power") /\ args.cal
    /\ n >= 2 /\ n < args.channels /\ args.m >= 2 /\ args.m < subs
    /\ power_clean # power
    /\ spectrum_clean.v # SmootherInput
    /\ \E i \in 1..args.channels :
          IsNaN(SmootherInput[i]) /\ IsFinite(spectrum_clean.v[i])

(* C12 (as claimed): the window 3 turns 1, 2, 3, 4, 5 into 2, 3, 4, 5, 5 *)
C12_ClaimedOutput ==
    (args = MedianExample /\ Past("smooth_power")) =>
        power_clean = <<Num(2), Num(3), Num(4), Num(5), Num(5)>>

(* C12 (amended): the window 3 turns 1, 2, 3, 4, 5 into 2, 3, 4, 4.5, 5:   *)
(* the window of the last but one element holds 4 and 5, whose median is   *)
(* their mean                                                              *)
C12_ActualOutput ==
    (args = MedianExample /\ Past("smooth_power")) =>
        /\ power = <<Num(1), Num(2), Num(3), Num(4), Num(5)>>
        /\ power_clean = <<Num(2), Num(3), Num(4), Fin(9, 2), Num(5)>>

C12_Witness ==
    /\ args = MedianExample /\ Past("smooth_power") /\ args.m = 3
    /\ power = <<Num(1), Num(2), Num(3), Num(4), Num(5)>>
    /\ Len(power_clean) = 5

----------------------------------------------------------------------------
(* C13 (as claimed): a call whose calibration recording was acquired with  *)
(* another channel count than the raw recording ends with an exception in  *)
(* the loading of the calibration recording and never holds a calibrated   *)
(* spectrum                                                                *)
C13_MismatchRejected ==
    (args.cal /\ args.cal_channels # args.channels) =>
        /\ ~Past("load_cal")
        /\ Len(spectrum.v) = 0

----------------------------------------------------------------------------
(* the stages of lines 745-774 *)
CalibrationStages == {"calibrate", "slope", "smooth_spectrum", "smooth_power"}

----------------------------------------------------------------------------
(* the ratio of line 750 is 1 in every channel where it is a number *)
RatioAllOnes ==
    /\ args.cal /\ Past("calibrate")
    /\ \A c \in 1..args.channels : RatioSpectrum[c] \in {Num(1), NaN}
    /\ \E c \in 1..args.channels : RatioSpectrum[c] = Num(1)

(* a ratio of ones has lag-2 differences of 0 only, so the noise SNR()     *)
(* divides by is 0, or nan when no difference is left, and the calibrated  *)
(* spectrum is 0/0 = nan in every channel: the normaliser never returns a  *)
(* 0 for it, and a slope correction finds no channel to fit                *)
IdenticalSpectraGiveNaN ==
    RatioAllOnes =>
        /\ snr[1].noise2 \in {Num(0), NaN}
        /\ \A c \in 1..args.channels : IsNaN(spectrum.v[c])
        /\ args.slope_correction => (pc = "slope" /\ err \in {"", "TypeError"})

IdenticalSpectraReached ==
    /\ RatioAllOnes /\ args.calf = args.obs
    /\ \A c \in 1..args.channels : RatioSpectrum[c] = Num(1)

----------------------------------------------------------------------------
(* the average over the integrations of recording w, channel by channel *)
AverageOver(w) ==
    [c \in 1..args.channels |->
        LET v == SelectSeq([r \in 1..Len(w) |-> w[r][c]], NotNaN)
        IN  Decibel(args.dB, IF Len(v) = 0 THEN NaN
                             ELSE VDiv(SumRange(v, 1, Len(v)), Num(Len(v))))]

(* C16 (as claimed): with dm # 0 the raw average spectrum is only there    *)
(* once the dedisperser has finished: it is derived from the recording the *)
(* dedisperser leaves                                                      *)
C16_AveragedAfterDedispersion ==
    (DedisperseEnabled(args.dm) /\ Len(avg_spectrum) > 0) => Past("shift")

(* C16 (amended): with dm # 0 the raw average spectrum is derived before   *)
(* the dedisperser runs, from the masked recording as it enters line 726,  *)
(* and no shift changes it; the power series is derived from the recording *)
(* the dedisperser leaves.  A shift rolls a channel along the time axis,   *)
(* so the average spectrum is also the average of the recording at every   *)
(* later moment                                                            *)
C16_AveragedBeforeDedispersion ==
    DedisperseEnabled(args.dm) =>
        /\ Past("dedisperse") =>
              /\ avg_spectrum = AverageOver(before)
              /\ avg_spectrum = AverageOver(waterfall)
        /\ pc = "dedisperse" =>
              /\ shifts = << >>
              /\ avg_spectrum = AverageOver(waterfall)
        /\ Past("power") =>
              power = [r \in 1..subs |-> Decibel(args.dB, NanMean(waterfall[r]))]

(* the dedisperser has finished and has changed the recording *)
C16_Witness ==
    /\ DedisperseEnabled(args.dm) /\ Past("power") /\ err = ""
    /\ waterfall # before
    /\ Len(shifts) = subs /\ subs >= 2
    /\ \E c \in 1..args.channels : IsFinite(avg_spectrum[c])
    /\ \E c \in 1..args.channels : IsNaN(avg_spectrum[c])

----------------------------------------------------------------------------
(* the line ang_coeff*x + intercept is the least-squares line of the       *)
(* points (frequency[i], fit.y[i]), i in chans: its residuals sum to 0 and *)
(* are orthogonal to the frequencies                                       *)
LeastSquaresOver(chans) ==
    LET res == Detrend(frequency, fit.y, fit)
        one == [i \in 1..args.channels |-> Num(1)]
    IN  /\ DotOver(res, one, chans) = Num(0)
        /\ DotOver(res, frequency, chans) = Num(0)

SlopeFitted == args.cal /\ args.slope_correction /\ Past("slope")

(* C17 (as claimed): the line of the slope correction is fitted to exactly  *)
(* the channels that are finite and outside the spectral-line mask         *)
C17_FitOutsideLineMask ==
    SlopeFitted =>
        LeastSquaresOver({i \in 1..args.channels : IsFinite(fit.y[i]) /\ mask[i] = 0})

(* what line 754 selects: the line is fitted to every finite channel,      *)
(* inside the spectral-line mask or not                                    *)
FitOverFiniteChannels ==
    SlopeFitted => LeastSquaresOver({i \in 1..args.channels : IsFinite(fit.y[i])})

FitReached ==
    /\ SlopeFitted
    /\ \E i \in 1..args.channels : IsFinite(fit.y[i]) /\ mask[i] = 1
    /\ fit.ang_coeff # Num(0)

----------------------------------------------------------------------------
(* the call stopped with an exception in one of the stages of lines 676-774 *)
ReductionFailed == err # "" /\ ~Past("smooth_power")

(* C18: a call that fails in a reduction stage has written no output file  *)
(* and removed none, and every step that writes or removes a file is taken *)
(* after all reduction stages have run without an exception                *)
C18_NoSinkBeforeReduction ==
    /\ [](ReductionFailed => (written = {} /\ removed = {}))
    /\ [][(written' # written \/ removed' # removed) =>
             (err = "" /\ Past("smooth_power"))]_vars

(* a call asked for every output file, with a FITS file already in place,  *)
(* has failed in the slope correction, the last reduction stage but two    *)
C18_Witness ==
    /\ FailedIn("slope")
    /\ args.waterfall_fits /\ args.fits_exists /\ args.spectra_csv /\ args.power_csv
    /\ subs > 0
    /\ written = {} /\ removed = {}

(* the same calls, when nothing fails, write and remove their files *)
SinksWritten ==
    /\ pc = "done"
    /\ written = {"fits", "spectra", "power", "plot"} /\ removed = {"fits"}

----------------------------------------------------------------------------
(* channel c, which spans the frequencies from its axis value up to that   *)
(* of the next channel, lies outside the RFI interval: it ends at or below *)
(* the low edge or starts above the high edge                              *)
OutsideInterval(c) ==
    LET f    == FrequencyAxis(args)[c + 1]
        step == VDiv(args.bandwidth, Num(args.channels))
    IN  \/ ~VLess(args.rfi[1], VAdd(f, step))
        \/ VLess(args.rfi[2], f)

(* C19 (as claimed): whatever the RFI interval, masking leaves a channel   *)
(* outside the interval as it was loaded, in the raw and in the            *)
(* calibration recording                                                   *)
C19_OutsideUntouched ==
    \A c \in Channels :
        (~NoRfi(args) /\ OutsideInterval(c)) =>
            /\ pc = "load_cal" => SameIn(waterfall, Loaded, c)
            /\ (pc = "average" /\ args.cal) => SameIn(waterfall_cal, LoadedCal, c)

(* the same for the intervals that start inside the band, where no mapped  *)
(* index is negative                                                       *)
InsideUntouched ==
    \A c \in Channels :
        (~NoRfi(args) /\ OutsideInterval(c) /\ ~VLess(args.rfi[1], FrequencyAxis(args)[1])) =>
            c \notin blanked \cup blanked_cal

----------------------------------------------------------------------------
(* C20 (as claimed): with dm # 0 every call shift(phase_num, n_rows)       *)
(* addresses a column the waterfall has, and the loop never ends with an   *)
(* index fault, whatever the shape of the recording                        *)
C20_ShiftInBounds ==
    DedisperseEnabled(args.dm) =>
        /\ \A k \in 1..Len(shifts) : shifts[k][1] \in Channels
        /\ ~(FailedIn("shift") /\ err = "IndexError")

(* the loop does run through when the recording has no more integrations   *)
(* than channels                                                           *)
ShiftInBoundsWhenFew ==
    (DedisperseEnabled(args.dm) /\ Past("axes") /\ subs <= args.channels) =>
        /\ \A k \in 1..Len(shifts) : shifts[k][1] \in Channels
        /\ ~(FailedIn("shift") /\ err = "IndexError")

====
